---- MODULE Spec2Model ----
(***************************************************************************)
(* Model of app.py: a Streamlit script that resolves a decision threshold  *)
(* from rf_thresholds.json, loads a cached model pipeline, renders a form  *)
(* of fifteen fields and, when the predict button was pressed, calls the   *)
(* pipeline and classifies the returned probability.                       *)
(*                                                                         *)
(* Streamlit executes the script top to bottom once per session start and  *)
(* once per widget interaction.  One execution is modelled as the steps    *)
(*   "threshold" (lines 18-29) -> "load" (31-46) -> "form" (76-134)        *)
(*   -> "button" (137-145) -> "idle"                                       *)
(* and a widget interaction at "idle" starts the next execution.           *)
(*                                                                         *)
(* Units: thresholds and probabilities are integers in hundredths          *)
(* (0.5 is 50); float-valued form fields are integers in tenths            *)
(* (SS 30.0 is 300, a height of 2.5 is 25).                                *)
(***************************************************************************)
EXTENDS Integers, Sequences, FiniteSets, TLC

VARIABLES
    pc,            \* position of the script / session
    thr_file,      \* rf_thresholds.json as read by the latest open/json.load
    THRESHOLD,     \* module global THRESHOLD
    thr_source,    \* module global thr_source
    caption,       \* st.caption of line 29 shown by the current run
    model_cache,   \* st.cache_resource entry of load_model
    model,         \* module global model
    messages,      \* st.error / st.success / st.info shown by the current run
    widgets,       \* current values of the fifteen input widgets
    button,        \* value st.button returns in the current run
    formRendered,  \* the input widgets have been rendered by the current run
    preview,       \* X_input as shown by st.dataframe in the current run
    inferLog,      \* the X_input of every predict_proba call of the current run
    proba,         \* probability displayed by the current run
    label,         \* classification label displayed by the current run
    result         \* outcome of the current run's button handler

vars == <<pc, thr_file, THRESHOLD, thr_source, caption, model_cache, model,
          messages, widgets, button, formRendered, preview, inferLog, proba,
          label, result>>

(***************************************************************************)
(* Bounds of the model.                                                    *)
(***************************************************************************)
\* at most this many widgets differ from their default value at a time
MaxEdited == 1

\* probabilities (hundredths) the opaque pipeline may return
ProbaGrid == {47, 50, 62}

(***************************************************************************)
(* Threshold resolution, lines 15-29.                                      *)
(***************************************************************************)
DEFAULT_THR == 50

\* a Python name that no assignment has bound yet
Unbound == "unbound"

SRC_YOUDEN == "Youden (from rf_thresholds.json)"
SRC_DEFAULT == "Default 0.5 (threshold file missing)"

KEY_YOUDEN == "threshold_Youden"
KEY_CHOSEN == "threshold_Chosen"

\* JSON values a key of the config may hold
JNum(n) == [t |-> "num", v |-> n, s |-> ""]
JStr(x) == [t |-> "str", v |-> 0, s |-> x]
JNull == [t |-> "null", v |-> 0, s |-> ""]

\* the values each key holds in the configs considered
YoudenValues == {JNum(47), JNum(150), JNull, JStr("0.62")}
ChosenValues == {JNum(-10), JNum(62), JStr("abc")}

EmptyObject == [k \in {} |-> JNull]

\* every JSON object over the two keys, each key absent or holding a value
JsonObjects ==
    {EmptyObject}
    \cup {[k \in {KEY_YOUDEN} |-> y] : y \in YoudenValues}
    \cup {[k \in {KEY_CHOSEN} |-> c] : c \in ChosenValues}
    \cup {[k \in {KEY_YOUDEN, KEY_CHOSEN} |-> IF k = KEY_YOUDEN THEN y ELSE c] :
             y \in YoudenValues, c \in ChosenValues}

\* what open() + json.load() meet on disk
ThrFiles ==
    {[kind |-> k, obj |-> EmptyObject] :
        k \in {"missing", "unreadable", "invalid_json", "json_array"}}
    \cup {[kind |-> "json_object", obj |-> o] : o \in JsonObjects}

\* float(x) of Python on a JSON value: does it return, and what
float_ok(x) ==
    CASE x.t = "num" -> TRUE
      [] x.t = "str" -> x.s \in {"0.62"}
      [] OTHER -> FALSE

float_val(x) ==
    CASE x.t = "num" -> x.v
      [] x.t = "str" /\ x.s = "0.62" -> 62
      [] OTHER -> Unbound

\* dict.get(key, default)
dict_get(d, key, default) == IF key \in DOMAIN d THEN d[key] ELSE default

\* the except branch without its assignment to thr_source
Fallback_source_kept == [THRESHOLD |-> DEFAULT_THR, thr_source |-> SRC_YOUDEN]

Fallback == [THRESHOLD |-> DEFAULT_THR, thr_source |-> SRC_DEFAULT]

\* the two lookups in the opposite order: Chosen > Youden > default
resolve_threshold_chosen_first(f) ==
    IF f.kind # "json_object"
    THEN Fallback
    ELSE LET sel == dict_get(f.obj, KEY_CHOSEN,
                             dict_get(f.obj, KEY_YOUDEN, JNum(DEFAULT_THR)))
         IN  IF float_ok(sel)
             THEN [THRESHOLD |-> float_val(sel), thr_source |-> SRC_YOUDEN]
             ELSE Fallback

\* the try/except of lines 18-27 on file f: the pair (THRESHOLD, thr_source)
resolve_threshold(f) ==
    IF f.kind # "json_object"
    THEN Fallback
    ELSE LET sel == dict_get(f.obj, KEY_YOUDEN,
                             dict_get(f.obj, KEY_CHOSEN, JNum(DEFAULT_THR)))
         IN  IF float_ok(sel)
             THEN [THRESHOLD |-> float_val(sel), thr_source |-> SRC_YOUDEN]
             ELSE Fallback

(***************************************************************************)
(* The form's domains and the record, lines 48-130.                        *)
(***************************************************************************)
CATS == [Gender |-> <<0, 1>>,
         Herniated_Level |-> <<"L2/3", "L3/4", "L4/5", "L5/S1">>,
         Priffmann |-> <<1, 2, 3, 4, 5>>,
         Iwabuchi |-> <<1, 2, 3, 4, 5>>,
         Modic |-> <<0, 1, 2>>,
         Komori |-> <<1, 2, 3, 4>>,
         MSU |-> <<1, 2, 3>>,
         Spinal_canal_stenosis |-> <<0, 1>>,
         Bull_eye |-> <<1, 2, 3>>]

\* (min, max, default); the four float fields in tenths
NUMS == [Age |-> <<18, 90, 50>>,
         SS |-> <<0, 600, 300>>,
         Months_of_Review |-> <<1, 36, 6>>,
         Initial_volume |-> <<0, 500, 40>>,
         Upper_VB_Posterior_Height_CM |-> <<10, 50, 25>>,
         Lower_VB_Posterior_Height_CM |-> <<10, 50, 24>>]

FEATURES == <<"Age", "Gender", "Herniated_Level", "Priffmann", "Iwabuchi",
              "Modic", "Komori", "MSU", "Spinal_canal_stenosis", "Bull_eye",
              "SS", "Upper_VB_Posterior_Height_CM",
              "Lower_VB_Posterior_Height_CM", "Initial_volume",
              "Months_of_Review">>

\* index= argument of each st.selectbox, 0-based as in the source
SelectIndex == [Gender |-> 1, Herniated_Level |-> 2, Priffmann |-> 1,
                Iwabuchi |-> 1, Modic |-> 0, Komori |-> 1, MSU |-> 1,
                Spinal_canal_stenosis |-> 0, Bull_eye |-> 0]

WidgetNames == DOMAIN CATS \cup DOMAIN NUMS

\* the value every widget holds before the user touches it
WidgetDefault(w) ==
    IF w \in DOMAIN CATS THEN CATS[w][SelectIndex[w] + 1] ELSE NUMS[w][3]

\* the values a widget offers: every option of a selectbox; of a number_input
\* its minimum, its default and its maximum
WidgetChoices(w) ==
    IF w \in DOMAIN CATS
    THEN {CATS[w][i] : i \in 1..Len(CATS[w])}
    ELSE {NUMS[w][1], NUMS[w][2], NUMS[w][3]}

\* the two labels exchanged
gender_label_swapped(Gender) == IF Gender = 1 THEN "Female" ELSE "Male"

gender_label(Gender) == IF Gender = 1 THEN "Male" ELSE "Female"

\* the dict with one key spelled differently from its name in FEATURES
row_misspelled(w) ==
    [Age |-> w.Age,
     Gender |-> gender_label(w.Gender),
     Herniated_Level |-> w.Herniated_Level,
     Pfirrmann |-> w.Priffmann,
     Iwabuchi |-> w.Iwabuchi,
     Modic |-> w.Modic,
     Komori |-> w.Komori,
     MSU |-> w.MSU,
     Spinal_canal_stenosis |-> w.Spinal_canal_stenosis,
     Bull_eye |-> w.Bull_eye,
     SS |-> w.SS,
     Upper_VB_Posterior_Height_CM |-> w.Upper_VB_Posterior_Height_CM,
     Lower_VB_Posterior_Height_CM |-> w.Lower_VB_Posterior_Height_CM,
     Initial_volume |-> w.Initial_volume,
     Months_of_Review |-> w.Months_of_Review]

\* the dict of lines 113-129; its int() and float() casts are applied to
\* widget values that already have that type and leave them as they are
row(w) ==
    [Age |-> w.Age,
     Gender |-> gender_label(w.Gender),
     Herniated_Level |-> w.Herniated_Level,
     Priffmann |-> w.Priffmann,
     Iwabuchi |-> w.Iwabuchi,
     Modic |-> w.Modic,
     Komori |-> w.Komori,
     MSU |-> w.MSU,
     Spinal_canal_stenosis |-> w.Spinal_canal_stenosis,
     Bull_eye |-> w.Bull_eye,
     SS |-> w.SS,
     Upper_VB_Posterior_Height_CM |-> w.Upper_VB_Posterior_Height_CM,
     Lower_VB_Posterior_Height_CM |-> w.Lower_VB_Posterior_Height_CM,
     Initial_volume |-> w.Initial_volume,
     Months_of_Review |-> w.Months_of_Review]

\* pd.DataFrame([row], columns=FEATURES): one cell per name of FEATURES, in
\* that order; a name the dict lacks gives an empty (NaN) cell
X_input(w) ==
    LET r == row(w)
    IN  [i \in 1..Len(FEATURES) |->
            IF FEATURES[i] \in DOMAIN r
            THEN [name |-> FEATURES[i], empty |-> FALSE, value |-> r[FEATURES[i]]]
            ELSE [name |-> FEATURES[i], empty |-> TRUE, value |-> 0]]

(***************************************************************************)
(* Classification, lines 140-141.                                          *)
(***************************************************************************)
POSITIVE == "Resorption (1)"
NEGATIVE == "Non-resorption (0)"

\* the comparison made strict
pred_cls_strict(p, thr) == IF p > thr THEN 1 ELSE 0

pred_cls(p, thr) == IF p >= thr THEN 1 ELSE 0

label_of(p, thr) == IF pred_cls(p, thr) = 1 THEN POSITIVE ELSE NEGATIVE

(***************************************************************************)
(* Model loading, lines 31-46.                                             *)
(***************************************************************************)
MSG_NOT_FOUND == "Model file not found"
MSG_LOAD_FAILED == "Model loading failed"
MSG_LOADED == "Model successfully loaded"
MSG_PREDICTED == "Predicted probability"
MSG_PRED_FAILED == "Prediction failed"
MSG_CHECK == "Please check that the feature names and values match"

\* what best_model_random_forest.pkl is on disk when load_model looks at it
ModelFiles == {"missing", "corrupt", "pipeline_A", "pipeline_B"}

\* load_model reporting the failure without st.stop()
load_model_no_stop(cache, disk) ==
    IF cache # "empty"
    THEN [halt |-> FALSE, error |-> "none", value |-> cache, cache |-> cache]
    ELSE IF disk = "missing"
    THEN [halt |-> FALSE, error |-> MSG_NOT_FOUND, value |-> Unbound, cache |-> cache]
    ELSE IF disk = "corrupt"
    THEN [halt |-> FALSE, error |-> MSG_LOAD_FAILED, value |-> Unbound, cache |-> cache]
    ELSE [halt |-> FALSE, error |-> "none", value |-> disk, cache |-> disk]

\* load_model without st.cache_resource: the file is read in every run
load_model_uncached(cache, disk) ==
    IF disk = "missing"
    THEN [halt |-> TRUE, error |-> MSG_NOT_FOUND, value |-> Unbound, cache |-> cache]
    ELSE IF disk = "corrupt"
    THEN [halt |-> TRUE, error |-> MSG_LOAD_FAILED, value |-> Unbound, cache |-> cache]
    ELSE [halt |-> FALSE, error |-> "none", value |-> disk, cache |-> cache]

\* load_model under st.cache_resource: a cached value is returned without
\* running the body; st.stop() ends the run and caches nothing
load_model(cache, disk) ==
    IF cache # "empty"
    THEN [halt |-> FALSE, error |-> "none", value |-> cache, cache |-> cache]
    ELSE IF disk = "missing"
    THEN [halt |-> TRUE, error |-> MSG_NOT_FOUND, value |-> Unbound, cache |-> cache]
    ELSE IF disk = "corrupt"
    THEN [halt |-> TRUE, error |-> MSG_LOAD_FAILED, value |-> Unbound, cache |-> cache]
    ELSE [halt |-> FALSE, error |-> "none", value |-> disk, cache |-> disk]

(***************************************************************************)
(* The session.                                                            *)
(***************************************************************************)
Init ==
    /\ pc = "threshold"
    /\ thr_file = [kind |-> "unread", obj |-> EmptyObject]
    /\ THRESHOLD = Unbound
    /\ thr_source = Unbound
    /\ caption = <<>>
    /\ model_cache = "empty"
    /\ model = Unbound
    /\ messages = <<>>
    /\ widgets = [w \in WidgetNames |-> WidgetDefault(w)]
    /\ button = FALSE
    /\ formRendered = FALSE
    /\ preview = <<>>
    /\ inferLog = <<>>
    /\ proba = Unbound
    /\ label = "none"
    /\ result = "none"

\* lines 18-29: read the config, bind THRESHOLD and thr_source, show the caption
ResolveThreshold ==
    /\ pc = "threshold"
    /\ \E f \in ThrFiles :
          LET r == resolve_threshold(f)
          IN  /\ thr_file' = f
              /\ THRESHOLD' = r.THRESHOLD
              /\ thr_source' = r.thr_source
              /\ caption' = <<r.THRESHOLD, r.thr_source>>
    /\ pc' = "load"
    /\ UNCHANGED <<model_cache, model, messages, widgets, button, formRendered,
                   preview, inferLog, proba, label, result>>

\* lines 42-46: model = load_model(MODEL_PATH), then the title and st.info;
\* st.stop() inside load_model ends the run before model is bound
LoadModel ==
    /\ pc = "load"
    /\ \E disk \in ModelFiles :
          LET r == load_model(model_cache, disk)
          IN  /\ model_cache' = r.cache
              /\ messages' = messages
                     \o (IF r.error # "none" THEN <<r.error>> ELSE <<>>)
                     \o (IF r.halt THEN <<>> ELSE <<MSG_LOADED>>)
              /\ model' = IF r.halt THEN model ELSE r.value
              /\ pc' = IF r.halt THEN "halted" ELSE "form"
    /\ UNCHANGED <<thr_file, THRESHOLD, thr_source, caption, widgets, button,
                   formRendered, preview, inferLog, proba, label, result>>

\* lines 76-134: the widgets, the record and its preview
RenderForm ==
    /\ pc = "form"
    /\ formRendered' = TRUE
    /\ preview' = X_input(widgets)
    /\ pc' = "button"
    /\ UNCHANGED <<thr_file, THRESHOLD, thr_source, caption, model_cache, model,
                   messages, widgets, button, inferLog, proba, label, result>>

\* lines 139-142: predict_proba returned p
PredictReturns(p) ==
    /\ inferLog' = Append(inferLog, X_input(widgets))
    /\ proba' = p
    /\ label' = label_of(p, THRESHOLD)
    /\ messages' = Append(messages, MSG_PREDICTED)
    /\ result' = "predicted"
    /\ pc' = "idle"
    /\ UNCHANGED <<thr_file, THRESHOLD, thr_source, caption, model_cache, model,
                   widgets, button, formRendered, preview>>

\* the except branch calling predict_proba a second time before reporting
PredictRaises_retry ==
    /\ inferLog' = inferLog \o <<X_input(widgets), X_input(widgets)>>
    /\ messages' = messages \o <<MSG_PRED_FAILED, MSG_CHECK>>
    /\ result' = "errored"
    /\ pc' = "idle"
    /\ UNCHANGED <<thr_file, THRESHOLD, thr_source, caption, model_cache, model,
                   widgets, button, formRendered, preview, proba, label>>

\* lines 139, 143-145: predict_proba raised
PredictRaises ==
    /\ inferLog' = Append(inferLog, X_input(widgets))
    /\ messages' = messages \o <<MSG_PRED_FAILED, MSG_CHECK>>
    /\ result' = "errored"
    /\ pc' = "idle"
    /\ UNCHANGED <<thr_file, THRESHOLD, thr_source, caption, model_cache, model,
                   widgets, button, formRendered, preview, proba, label>>

\* line 137 with the button pressed: the try block
PredictButton ==
    /\ pc = "button"
    /\ button
    /\ \/ \E p \in ProbaGrid : PredictReturns(p)
       \/ PredictRaises

\* line 137 with the button not pressed: the script ends
NoPredict ==
    /\ pc = "button"
    /\ ~button
    /\ pc' = "idle"
    /\ UNCHANGED <<thr_file, THRESHOLD, thr_source, caption, model_cache, model,
                   messages, widgets, button, formRendered, preview, inferLog,
                   proba, label, result>>

\* a widget interaction starts the next execution of the script: the page is
\* rebuilt, the module globals and the resource cache are what they were
StartRun ==
    /\ pc' = "threshold"
    /\ caption' = <<>>
    /\ messages' = <<>>
    /\ formRendered' = FALSE
    /\ preview' = <<>>
    /\ inferLog' = <<>>
    /\ proba' = Unbound
    /\ label' = "none"
    /\ result' = "none"
    /\ UNCHANGED <<thr_file, THRESHOLD, thr_source, model_cache, model>>

Edited(w) == {n \in WidgetNames : w[n] # WidgetDefault(n)}

\* the user changes one selectbox or number_input
EditWidget ==
    /\ pc = "idle"
    /\ formRendered
    /\ \E n \in WidgetNames :
          \E v \in WidgetChoices(n) :
             /\ v # widgets[n]
             /\ widgets' = [widgets EXCEPT ![n] = v]
             /\ Cardinality(Edited(widgets')) <= MaxEdited
    /\ button' = FALSE
    /\ StartRun

\* the user presses "Predict Resorption Probability"
ClickPredict ==
    /\ pc = "idle"
    /\ formRendered
    /\ button' = TRUE
    /\ UNCHANGED widgets
    /\ StartRun

Next ==
    \/ ResolveThreshold
    \/ LoadModel
    \/ RenderForm
    \/ PredictButton
    \/ NoPredict
    \/ EditWidget
    \/ ClickPredict

Spec == Init /\ [][Next]_vars

(***************************************************************************)
(* Vocabulary of the properties, stated without the resolver's operators.  *)
(***************************************************************************)
\* JSON value x denotes the number t (hundredths)
Denotes(x, t) ==
    \/ x.t = "num" /\ x.v = t
    \/ x.t = "str" /\ x.s = "0.62" /\ t = 62

IsNumber(x) == x.t = "num" \/ (x.t = "str" /\ x.s = "0.62")

Resolved == thr_source # Unbound

IsObject == thr_file.kind = "json_object"

HasYouden == IsObject /\ KEY_YOUDEN \in DOMAIN thr_file.obj

HasChosen == IsObject /\ KEY_CHOSEN \in DOMAIN thr_file.obj

(***************************************************************************)
(* C1  Whenever a run displays a prediction, the label is "Resorption (1)" *)
(* exactly when the probability is at least THRESHOLD, and otherwise it is *)
(* "Non-resorption (0)"; equality gives the positive label.                *)
(***************************************************************************)
C1_LabelIffAtLeastThreshold ==
    result = "predicted" =>
        /\ label \in {POSITIVE, NEGATIVE}
        /\ (label = POSITIVE <=> proba >= THRESHOLD)

\* a prediction whose probability equals the threshold, labelled positive
C1_Witness ==
    /\ result = "predicted"
    /\ proba = THRESHOLD
    /\ label = POSITIVE

(***************************************************************************)
(* C2, as claimed  For every config that is a JSON object the threshold is *)
(* the value of threshold_Youden if the key is present, else the value of  *)
(* threshold_Chosen if that key is present, else 0.5.                      *)
(***************************************************************************)
C2_AsClaimed ==
    (Resolved /\ IsObject) =>
        IF HasYouden THEN Denotes(thr_file.obj[KEY_YOUDEN], THRESHOLD)
        ELSE IF HasChosen THEN Denotes(thr_file.obj[KEY_CHOSEN], THRESHOLD)
        ELSE THRESHOLD = DEFAULT_THR

(***************************************************************************)
(* C2, amended  For every config that is a JSON object the value selected  *)
(* is that of threshold_Youden if the key is present, else that of         *)
(* threshold_Chosen if that key is present; the threshold is the number    *)
(* the selected value converts to, and it is 0.5 when neither key is       *)
(* present or when the selected value does not convert to a number (the    *)
(* other key is then not consulted).                                       *)
(***************************************************************************)
C2_YoudenChosenDefault ==
    (Resolved /\ IsObject) =>
        IF HasYouden
        THEN IF IsNumber(thr_file.obj[KEY_YOUDEN])
             THEN Denotes(thr_file.obj[KEY_YOUDEN], THRESHOLD)
             ELSE THRESHOLD = DEFAULT_THR
        ELSE IF HasChosen
        THEN IF IsNumber(thr_file.obj[KEY_CHOSEN])
             THEN Denotes(thr_file.obj[KEY_CHOSEN], THRESHOLD)
             ELSE THRESHOLD = DEFAULT_THR
        ELSE THRESHOLD = DEFAULT_THR

\* both keys hold different numbers and the Youden one is the threshold
C2_Witness ==
    /\ Resolved
    /\ HasYouden
    /\ HasChosen
    /\ thr_file.obj[KEY_YOUDEN] = JNum(47)
    /\ thr_file.obj[KEY_CHOSEN] = JNum(62)
    /\ THRESHOLD = 47

(***************************************************************************)
(* C8  Whatever the config file holds, the resolved threshold lies in the  *)
(* closed range [0, 1], that is 0..100 hundredths.                         *)
(***************************************************************************)
C8_ThresholdInUnitInterval ==
    Resolved => (0 <= THRESHOLD /\ THRESHOLD <= 100)

(***************************************************************************)
(* C10  The provenance label names the source of the value: it says Youden *)
(* only when the threshold came from the threshold_Youden key, and it is   *)
(* the default label whenever the value is the 0.5 default because neither *)
(* key is present or the file could not be used.                           *)
(***************************************************************************)
C10_ProvenanceNamesSource ==
    Resolved =>
        /\ thr_source = SRC_YOUDEN =>
              (HasYouden /\ Denotes(thr_file.obj[KEY_YOUDEN], THRESHOLD))
        /\ (~HasYouden /\ ~HasChosen) => thr_source = SRC_DEFAULT

\* the run showed one of load_model's two errors
LoadFailed ==
    \E i \in 1..Len(messages) : messages[i] \in {MSG_NOT_FOUND, MSG_LOAD_FAILED}

\* a halted session: the error alone on the page, nothing bound or cached
Halted ==
    /\ pc = "halted"
    /\ ~formRendered
    /\ preview = <<>>
    /\ inferLog = <<>>
    /\ result = "none"
    /\ label = "none"
    /\ model = Unbound
    /\ model_cache = "empty"
    /\ Len(messages) = 1

(***************************************************************************)
(* C3  When the model file is missing or does not deserialize, the run     *)
(* reports the error and the session halts: no form and no preview are     *)
(* rendered, no model is bound or cached, no inference call is made, and   *)
(* no step follows (no trigger, no further load).                          *)
(***************************************************************************)
C3_FailedLoadIsFatal ==
    [][ /\ pc # "halted"
        /\ LoadFailed' => Halted'
        /\ pc' = "halted" => LoadFailed' ]_vars

\* the session halted on a missing model file
C3_Witness ==
    /\ pc = "halted"
    /\ messages = <<MSG_NOT_FOUND>>

\* the config as last read makes the try block of the resolution raise
ThresholdError ==
    \/ thr_file.kind \in {"missing", "unreadable", "invalid_json", "json_array"}
    \/ HasYouden /\ ~IsNumber(thr_file.obj[KEY_YOUDEN])
    \/ ~HasYouden /\ HasChosen /\ ~IsNumber(thr_file.obj[KEY_CHOSEN])

(***************************************************************************)
(* C4  When the config cannot be read or parsed, or the value selected     *)
(* from it does not convert to a number, the resolution step binds         *)
(* THRESHOLD to 0.5 and the default provenance label, shows both in the    *)
(* caption and goes on to model loading; the session halts only in the     *)
(* model-loading step.                                                     *)
(***************************************************************************)
C4_ThresholdErrorFallsBack ==
    [][ /\ pc = "threshold" =>
              /\ pc' = "load"
              /\ ThresholdError' =>
                    /\ THRESHOLD' = DEFAULT_THR
                    /\ thr_source' = SRC_DEFAULT
                    /\ caption' = <<DEFAULT_THR, SRC_DEFAULT>>
        /\ pc' = "halted" => pc = "load" ]_vars

\* a session whose config held an unconvertible value shows the form
C4_Witness ==
    /\ pc = "idle"
    /\ formRendered
    /\ HasYouden
    /\ thr_file.obj[KEY_YOUDEN] = JNull
    /\ THRESHOLD = DEFAULT_THR
    /\ thr_source = SRC_DEFAULT

\* the run showed message m
Shows(m) == \E i \in 1..Len(messages) : messages[i] = m

SchemaOrder ==
    <<"Age", "Gender", "Herniated_Level", "Priffmann", "Iwabuchi", "Modic",
      "Komori", "MSU", "Spinal_canal_stenosis", "Bull_eye", "SS",
      "Upper_VB_Posterior_Height_CM", "Lower_VB_Posterior_Height_CM",
      "Initial_volume", "Months_of_Review">>

(***************************************************************************)
(* C6  The record previewed by a run has the fifteen fields Age, Gender,   *)
(* Herniated_Level, Priffmann, Iwabuchi, Modic, Komori, MSU,               *)
(* Spinal_canal_stenosis, Bull_eye, SS, Upper_VB_Posterior_Height_CM,      *)
(* Lower_VB_Posterior_Height_CM, Initial_volume, Months_of_Review in this  *)
(* order, none of them empty, it is rendered by every run that reaches the *)
(* button, and the record passed to inference is the previewed one.        *)
(***************************************************************************)
C6_RecordHasSchema ==
    /\ pc \in {"button", "idle"} => Len(preview) = 15
    /\ preview # <<>> =>
          /\ Len(preview) = 15
          /\ \A i \in 1..15 :
                /\ preview[i].name = SchemaOrder[i]
                /\ ~preview[i].empty
    /\ \A i \in 1..Len(inferLog) : inferLog[i] = preview

\* a prediction made from an edited form: the record passed is the preview
C6_Witness ==
    /\ result = "predicted"
    /\ Edited(widgets) # {}
    /\ inferLog = <<preview>>

(***************************************************************************)
(* C7  The Gender widget holds 0 or 1, and the Gender field of the record  *)
(* is "Female" for 0 and "Male" for 1.                                     *)
(***************************************************************************)
C7_GenderRelabel ==
    /\ widgets["Gender"] \in {0, 1}
    /\ preview # <<>> =>
          /\ preview[2].name = "Gender"
          /\ widgets["Gender"] = 0 => preview[2].value = "Female"
          /\ widgets["Gender"] = 1 => preview[2].value = "Male"
          /\ preview[2].value \in {"Female", "Male"}

\* the user chose code 0 and the record says Female
C7_Witness ==
    /\ preview # <<>>
    /\ widgets["Gender"] = 0
    /\ preview[2].value = "Female"

\* the default values of the fifteen fields, as the session starts with them
DefaultValues ==
    [Age |-> 50, Gender |-> 1, Herniated_Level |-> "L4/5", Priffmann |-> 2,
     Iwabuchi |-> 2, Modic |-> 0, Komori |-> 2, MSU |-> 2,
     Spinal_canal_stenosis |-> 0, Bull_eye |-> 1, SS |-> 300,
     Upper_VB_Posterior_Height_CM |-> 25, Lower_VB_Posterior_Height_CM |-> 24,
     Initial_volume |-> 40, Months_of_Review |-> 6]

\* the session starts with the default values; a run begins only from idle,
\* by an edit or a trigger; a triggered run makes exactly one inference call
\* in its button step and ends predicted or errored, idle; a run that was
\* not triggered makes none; no other step makes an inference call; the
\* model, once bound, stays the same
CycleStep ==
    /\ ~Resolved => widgets = DefaultValues
    /\ (button' # button \/ widgets' # widgets) =>
          (pc = "idle" /\ pc' = "threshold" /\ inferLog' = <<>> /\ result' = "none")
    /\ pc = "idle" => pc' = "threshold"
    /\ (pc = "button" /\ button) =>
          /\ inferLog = <<>>
          /\ Len(inferLog') = 1
          /\ result' \in {"predicted", "errored"}
          /\ pc' = "idle"
    /\ (pc = "button" /\ ~button) =>
          /\ inferLog' = <<>>
          /\ result' = "none"
          /\ pc' = "idle"
    /\ pc # "button" => (Len(inferLog') <= Len(inferLog) /\ result' = "none")
    /\ model # Unbound => model' = model

====
